---- MODULE Spec2Model ----
\* XNNPACK execution provider, Conv / QLinearConv kernel
\* (onnxruntime/core/providers/xnnpack/nn/conv.cc).
\*
\* One operator instance is modelled: its construction from a graph node
\* (Conv::Conv), the weight pre-packing hook (Conv::PrePack, which also
\* builds the native kernel through CreateXnnpackKernel) and the inference
\* call (Conv::Compute).  The native library is modelled by the objects it
\* creates (kernels), by the buffers bound to them and by the status codes
\* it returns, which are inputs of the actions.
\*
\* Floating point values are held as integers counting halves (3 is 1.5),
\* so that the float -> uint8 narrowing of the clamp has something to cut.
EXTENDS Integers, Sequences, FiniteSets, TLC

\* ---------------------------------------------------------------- bounds
MaxCalls == 3       \* PrePack / Compute calls made on the instance
MaxN == 1           \* batch sizes offered to Compute are 0..MaxN
MaxH == 3           \* input heights offered to Compute are 0 and MaxH
MaxDim == 5         \* input extents offered when the output shape is examined

\* ------------------------------------------------------ program constants
XNN_FLAG_TENSORFLOW_SAME_PADDING == 4
QS8_OUTPUT_MIN == -126
QS8_OUTPUT_MAX == 126
QU8_OUTPUT_MIN == 0
QU8_OUTPUT_MAX == 255
NEG_INFINITY == -100000
POS_INFINITY == 100000

\* Conv::InputTensors, the input positions of the QLinearConv signature
IN_X_SCALE == 1
IN_X_ZERO_POINT == 2
IN_W == 3
IN_W_SCALE == 4
IN_W_ZERO_POINT == 5
IN_Y_SCALE == 6
IN_Y_ZERO_POINT == 7

VARIABLES
  info,           \* the graph node handed to the constructor (OpKernelInfo)
  life,           \* "new" | "live" | "ctor_failed"
  conv_type_,     \* xnn_compute_type
  clip_min_max_,  \* <<>> (nullopt) or <<min, max>>
  quant_param_,   \* QuantParam
  conv_attrs_,    \* ConvAttributes: auto_pad, pads, strides, dilations, group
  kernel_shape_,  \* <<kH, kW>>
  C_, M_,         \* input channels, output channels
  packed_w_,      \* the owned, transposed weight tensor (id 0: null)
  op0_,           \* 0 (null) or the id of the native kernel (index in kernels)
  kernels,        \* the native kernels created so far, with their arguments
  released,       \* ids of the native kernels that were deleted
  freed,          \* ids of the weight buffers that were freed
  nbufs,          \* number of weight buffers allocated so far
  bound,          \* the Compute call whose buffers the native kernel holds
  calls,          \* number of PrePack / Compute calls made
  last,           \* what the last call did and returned
  conc            \* the Compute calls in progress on the session's threads

vars == <<info, life, conv_type_, clip_min_max_, quant_param_, conv_attrs_,
          kernel_shape_, C_, M_, packed_w_, op0_, kernels, released, freed,
          nbufs, bound, calls, last, conc>>

\* the reusable state of the operator, as Compute finds it
opstate == <<conv_type_, clip_min_max_, quant_param_, conv_attrs_,
             kernel_shape_, C_, M_, packed_w_, op0_>>

\* --------------------------------------------------------------- inputs
DTypes == {"FLOAT", "INT8", "UINT8", "INT32"}

\* weight tensors {M, C/group, kH, kW} of the nodes
WShapes == {<<2, 1, 1, 1>>, <<1, 2, 2, 2>>}

\* W_scale tensors: one element, or one element per output channel
WScales(M) == {<<2>>} \cup (IF M > 1 THEN {[i \in 1..M |-> 2 + i]} ELSE {})

\* activation_params of a fused Clip / Relu, in halves:
\* none, (0, 6), (0.5, 6), (-1, 6)
ClipParams == {<<>>, <<0, 12>>, <<1, 12>>, <<-2, 12>>}

AutoPads == {"NOTSET", "SAME_UPPER"}
PadAttrs == {<<>>, <<1, 1, 1, 1>>}
StrideAttrs == {<<>>, <<2, 2>>}
DilationAttrs == {<<>>, <<1, 2>>}

\* the values held by the X / W / Y zero point tensors, which have the
\* element type of X: int8 on the signed paths, uint8 otherwise
ZeroPoints(x_dtype) ==
  IF x_dtype = "INT8"
  THEN {[X |-> -128, W |-> 0, Y |-> 0], [X |-> -1, W |-> 0, Y |-> -56]}
  ELSE {[X |-> 128, W |-> 128, Y |-> 0], [X |-> 255, W |-> 0, Y |-> 200]}

\* every value of the element type, for X, W and Y
AllZeroPoints(x_dtype) ==
  IF x_dtype = "INT8"
  THEN {[X |-> v, W |-> 0, Y |-> -1 - v] : v \in -128..127}
  ELSE {[X |-> v, W |-> (v + 128) % 256, Y |-> 255 - v] : v \in 0..255}

\* the inputs of the node that are not constant initializers: at most one
NonConstSets == {{}} \cup {{i} : i \in IN_X_SCALE..IN_Y_ZERO_POINT}

\* A Conv node (float) has no quantization inputs: its W_scale and zero points
\* are placeholders, and one absent quantization position stands for all.
Nodes ==
  {n \in [x_dtype : DTypes, W_shape : WShapes, W_scale : WScales(2) \cup WScales(1),
          activation_params : ClipParams, auto_pad : AutoPads, pads : PadAttrs,
          strides : StrideAttrs, dilations : {<<>>},
          zp : ZeroPoints("INT8") \cup ZeroPoints("UINT8"),
          non_const : NonConstSets] :
     /\ n.W_scale \in WScales(n.W_shape[1])
     /\ n.zp \in ZeroPoints(n.x_dtype)
     /\ n.x_dtype = "FLOAT" =>
          /\ n.W_scale = <<2>>
          /\ n.zp.X = 128
          /\ n.non_const \in {{}, {1}, {IN_W_SCALE}}}

\* the quantized nodes with a two-channel weight, a handle being built for
\* every value a zero point can take
LifeNodes ==
  {n \in [x_dtype : {"INT8", "UINT8"}, W_shape : {<<2, 1, 1, 1>>},
          W_scale : WScales(2), activation_params : {<<>>},
          auto_pad : {"NOTSET"}, pads : {<<>>}, strides : {<<>>},
          dilations : {<<>>},
          zp : AllZeroPoints("INT8") \cup AllZeroPoints("UINT8"),
          non_const : {{}}] :
     n.zp \in AllZeroPoints(n.x_dtype)}

\* the nodes the output shape and the packed weight are examined on: the
\* 8x4x3x3 weight with the default attributes, and a weight whose four
\* extents differ from each other's neighbours under every attribute
ShapeNodes ==
  {n \in [x_dtype : {"FLOAT", "INT8"}, W_shape : {<<8, 4, 3, 3>>, <<2, 3, 1, 2>>},
          W_scale : {<<2>>}, activation_params : {<<>>},
          auto_pad : AutoPads, pads : {<<>>, <<1, 0, 2, 1>>},
          strides : {<<>>, <<2, 1>>}, dilations : DilationAttrs,
          zp : {[X |-> 0, W |-> 0, Y |-> 0]}, non_const : {{}}] :
     n.W_shape = <<8, 4, 3, 3>> =>
       /\ n.x_dtype = "FLOAT" /\ n.auto_pad = "NOTSET"
       /\ n.pads = <<>> /\ n.strides = <<>> /\ n.dilations = <<>>}

NoQuantParam ==
  [X_zero_point_value |-> 0, W_zero_point_value |-> 0, Y_zero_point_value |-> 0,
   X_scale_value |-> 0, W_scale_value |-> 0, Y_scale_value |-> 0,
   W_scale_arr |-> <<>>]

NoAttrs == [auto_pad |-> "NOTSET", pads |-> <<>>, strides |-> <<>>,
            dilations |-> <<>>, group |-> 1, activation |-> ""]

NoTensor == [id |-> 0, shape |-> <<>>, dtype |-> "", data |-> <<>>]

NoCall == [op |-> "none", status |-> "OK", error |-> "", is_packed |-> FALSE,
           input_idx |-> 0, native |-> <<>>, X_shape |-> <<>>, pads |-> <<>>,
           Y_dims |-> <<>>]

\* the threads of the session that call Compute
Threads == {1, 2}

\* how the session runs two Compute calls: on the same operator with nothing
\* between them, on the same operator under a lock of the caller, or each on
\* an operator of its own (the second one the twin of the first, built from
\* the same node by the same calls)
Modes == {"shared", "serialized", "distinct"}

IdleThread == [pc |-> "idle", call |-> 0, mine |-> {}, X_shape |-> <<>>,
               pads |-> <<>>, Y_dims |-> <<>>, ran_on |-> 0]

NoConc == [mode |-> "shared", lock |-> 0, bound2 |-> 0,
           th |-> [t \in Threads |-> IdleThread]]

Init ==
  /\ info \in Nodes
  /\ life = "new"
  /\ conv_type_ = "invalid"
  /\ clip_min_max_ = <<>>
  /\ quant_param_ = NoQuantParam
  /\ conv_attrs_ = NoAttrs
  /\ kernel_shape_ = <<>>
  /\ C_ = 0 /\ M_ = 0
  /\ packed_w_ = NoTensor /\ op0_ = 0
  /\ kernels = <<>> /\ released = {} /\ freed = {}
  /\ nbufs = 0 /\ bound = 0 /\ calls = 0
  /\ last = NoCall
  /\ conc = NoConc

\* ---------------------------------------------------------- construction
\* TryGetConstantInput(i, &t): input i is a constant initializer
IsConstantInput(n, i) == i \notin n.non_const

\* IsScalarOr1ElementVector(W_scale)
IsScalarOr1ElementVector(t) == Len(t) = 1

\* ORT_ENFORCE(TryGetConstantInput(..)) of the three zero points, then of the
\* three scales: the first one that is not constant throws
QuantInputOrderZeroPointsOnly == <<IN_X_ZERO_POINT, IN_W_ZERO_POINT, IN_Y_ZERO_POINT>>

QuantInputOrder == <<IN_X_ZERO_POINT, IN_W_ZERO_POINT, IN_Y_ZERO_POINT,
                     IN_X_SCALE, IN_W_SCALE, IN_Y_SCALE>>

FirstNonConst(n) ==
  LET bad == {k \in 1..Len(QuantInputOrder) : ~IsConstantInput(n, QuantInputOrder[k])}
  IN IF bad = {} THEN 0
     ELSE QuantInputOrder[CHOOSE k \in bad : \A j \in bad : k <= j]

\* the classification without the per-channel test
ClassifyQuantPerTensorOnly(x_dtype, W_scale) ==
  IF x_dtype = "INT8" THEN "qs8"
  ELSE IF x_dtype = "UINT8" THEN "qu8" ELSE "invalid"

\* *(t->Data<uint8_t>()): the first byte of the tensor read as unsigned
DataAsUint8(v) == v % 256

\* the variant the input dtype and the W_scale tensor select
ClassifyQuant(x_dtype, W_scale) ==
  IF x_dtype = "INT8"
  THEN IF ~IsScalarOr1ElementVector(W_scale) THEN "qc8" ELSE "qs8"
  ELSE IF x_dtype = "UINT8" THEN "qu8" ELSE "invalid"

\* the parse retaining the scale array on every path
ParseQuantParamAndConTypeArrayAlways(n, x_dtype) ==
  IF FirstNonConst(n) # 0
  THEN [ok |-> FALSE, error |-> FirstNonConst(n), conv_type |-> "invalid",
        quant_param |-> NoQuantParam]
  ELSE [ok |-> TRUE, error |-> 0,
        conv_type |-> ClassifyQuant(x_dtype, n.W_scale),
        quant_param |->
          [X_zero_point_value |-> DataAsUint8(n.zp.X),
           W_zero_point_value |-> DataAsUint8(n.zp.W),
           Y_zero_point_value |-> DataAsUint8(n.zp.Y),
           X_scale_value |-> 1,
           W_scale_value |-> n.W_scale[1],
           Y_scale_value |-> 1,
           W_scale_arr |-> n.W_scale]]

ParseQuantParamAndConType(n, x_dtype) ==
  IF FirstNonConst(n) # 0
  THEN [ok |-> FALSE, error |-> FirstNonConst(n), conv_type |-> "invalid",
        quant_param |-> NoQuantParam]
  ELSE [ok |-> TRUE, error |-> 0,
        conv_type |-> ClassifyQuant(x_dtype, n.W_scale),
        quant_param |->
          [X_zero_point_value |-> DataAsUint8(n.zp.X),
           W_zero_point_value |-> DataAsUint8(n.zp.W),
           Y_zero_point_value |-> DataAsUint8(n.zp.Y),
           X_scale_value |-> 1,
           W_scale_value |-> n.W_scale[1],
           Y_scale_value |-> 1,
           W_scale_arr |-> IF x_dtype = "INT8" /\ ~IsScalarOr1ElementVector(n.W_scale)
                           THEN n.W_scale ELSE <<>>]]

\* the variant the constructor stores, and whether it throws
CtorType(n) ==
  IF n.x_dtype = "FLOAT"
  THEN [ok |-> IsConstantInput(n, 1), error |-> 1, conv_type |-> "fp32",
        quant_param |-> NoQuantParam]
  ELSE IF ~IsConstantInput(n, IN_W)
       THEN [ok |-> FALSE, error |-> IN_W, conv_type |-> "invalid",
             quant_param |-> NoQuantParam]
       ELSE ParseQuantParamAndConType(n, n.x_dtype)

\* ConvAttributes{info}, then the defaults the constructor fills in
CtorAttrs(n) ==
  [auto_pad |-> n.auto_pad,
   pads |-> IF n.pads = <<>> THEN <<0, 0, 0, 0>> ELSE n.pads,
   strides |-> IF n.strides = <<>> THEN <<1, 1>> ELSE n.strides,
   dilations |-> IF n.dilations = <<>> THEN <<1, 1>> ELSE n.dilations,
   group |-> 1,
   activation |-> IF n.activation_params = <<>> THEN "" ELSE "Clip"]

Conv ==
  /\ life = "new"
  /\ LET t == CtorType(info) IN
     IF t.ok
     THEN /\ life' = "live"
          /\ clip_min_max_' = IF Len(info.activation_params) = 2
                               THEN info.activation_params ELSE <<>>
          /\ conv_type_' = t.conv_type
          /\ quant_param_' = t.quant_param
          /\ C_' = info.W_shape[2]
          /\ M_' = info.W_shape[1]
          /\ kernel_shape_' = <<info.W_shape[3], info.W_shape[4]>>
          /\ conv_attrs_' = CtorAttrs(info)
          /\ last' = [NoCall EXCEPT !.op = "Conv"]
     ELSE /\ life' = "ctor_failed"
          /\ last' = [NoCall EXCEPT !.op = "Conv", !.status = "THROW",
                                     !.error = "not constant initializer"]
          /\ UNCHANGED <<clip_min_max_, conv_type_, quant_param_, C_, M_,
                         kernel_shape_, conv_attrs_>>
  /\ UNCHANGED <<conc, info, packed_w_, op0_, kernels, released, freed, nbufs,
                 bound, calls>>

\* ------------------------------------------------------ kernel creation
\* the unsigned byte handed on without narrowing
ToInt8Unnarrowed(v) == v

\* static_cast<int8_t>(v) of an unsigned byte
ToInt8(v) == IF v >= 128 THEN v - 256 ELSE v

\* the integer part of a float held in halves (truncation toward zero)
Trunc(h) == IF h >= 0 THEN h \div 2 ELSE -((-h) \div 2)

\* static_cast<uint8_t>(f) of a float: the truncated value when it fits.
\* When it does not fit the conversion is undefined: builds wrap or saturate.
ToUint8(h) ==
  LET t == Trunc(h) IN
  IF t >= 0 /\ t <= 255 THEN {t}
  ELSE {t % 256, IF t < 0 THEN 0 ELSE 255}

\* what may lie behind quant_param->W_scale_value, which the per-channel
\* creation reads as an array of M floats
AdjacentMemory == {1, 4}

ScalesRead(quant_param, M) ==
  {<<quant_param.W_scale_value>> \o g : g \in [1..(M - 1) -> AdjacentMemory]}

\* uint32_t flags of CreateXnnpackKernel
SamePaddingFlags(attrs) ==
  IF attrs.auto_pad = "SAME_UPPER" THEN XNN_FLAG_TENSORFLOW_SAME_PADDING ELSE 0

\* the clamp with the signed paths taking the fused pair like the float path
OutputClampFusedSigned(conv_type, clip) ==
  IF conv_type \in {"fp32", "qs8", "qc8"}
  THEN {<<IF clip # <<>> THEN clip[1] ELSE NEG_INFINITY,
          IF clip # <<>> THEN clip[2] ELSE POS_INFINITY>>}
  ELSE {<<2 * lo, 2 * hi>> :
          lo \in (IF clip # <<>> THEN ToUint8(clip[1]) ELSE {QU8_OUTPUT_MIN}),
          hi \in (IF clip # <<>> THEN ToUint8(clip[2]) ELSE {QU8_OUTPUT_MAX})}

\* output_min / output_max of each variant, in halves
OutputClamp(conv_type, clip) ==
  IF conv_type = "fp32"
  THEN {<<IF clip # <<>> THEN clip[1] ELSE NEG_INFINITY,
          IF clip # <<>> THEN clip[2] ELSE POS_INFINITY>>}
  ELSE IF conv_type \in {"qs8", "qc8"}
  THEN {<<2 * QS8_OUTPUT_MIN, 2 * QS8_OUTPUT_MAX>>}
  ELSE {<<2 * lo, 2 * hi>> :
          lo \in (IF clip # <<>> THEN ToUint8(clip[1]) ELSE {QU8_OUTPUT_MIN}),
          hi \in (IF clip # <<>> THEN ToUint8(clip[2]) ELSE {QU8_OUTPUT_MAX})}

\* the arguments the variants hand to xnn_create_convolution2d_nhwc_*
CreateArgs(attrs, C, M, kernel_shape, clip, W, qp, conv_type) ==
  LET common ==
        [type |-> conv_type,
         padding |-> <<attrs.pads[1], attrs.pads[4], attrs.pads[3], attrs.pads[2]>>,
         kernel |-> <<kernel_shape[1], kernel_shape[2]>>,
         subsampling |-> attrs.strides, dilation |-> attrs.dilations,
         groups |-> attrs.group,
         group_input_channels |-> C \div attrs.group,
         group_output_channels |-> M \div attrs.group,
         input_channel_stride |-> C, output_channel_stride |-> M,
         weights |-> W.id,
         x_zp |-> 0, w_zp |-> 0, y_zp |-> 0,
         w_scale_ptr |-> "none", w_scale |-> <<>>,
         output_min |-> 0, output_max |-> 0, flags |-> 0]
  IN
  IF conv_type = "fp32" THEN
    {[common EXCEPT
        !.output_min = c[1], !.output_max = c[2],
        !.flags = SamePaddingFlags(attrs)] : c \in OutputClamp(conv_type, clip)}
  ELSE IF conv_type = "qs8" THEN
    {[common EXCEPT
        !.x_zp = ToInt8(qp.X_zero_point_value),
        !.y_zp = ToInt8(qp.Y_zero_point_value),
        !.w_scale_ptr = "W_scale_value", !.w_scale = <<qp.W_scale_value>>,
        !.output_min = c[1], !.output_max = c[2],
        !.flags = 0] : c \in OutputClamp(conv_type, clip)}
  ELSE IF conv_type = "qc8" THEN
    {[common EXCEPT
        !.x_zp = ToInt8(qp.X_zero_point_value),
        !.y_zp = ToInt8(qp.Y_zero_point_value),
        !.w_scale_ptr = "&W_scale_value", !.w_scale = sc,
        !.output_min = c[1], !.output_max = c[2],
        !.flags = 0] : sc \in ScalesRead(qp, M), c \in OutputClamp(conv_type, clip)}
  ELSE IF conv_type = "qu8" THEN
    {[common EXCEPT
        !.x_zp = qp.X_zero_point_value,
        !.w_zp = qp.W_zero_point_value,
        !.y_zp = qp.Y_zero_point_value,
        !.w_scale_ptr = "W_scale_value", !.w_scale = <<qp.W_scale_value>>,
        !.output_min = c[1], !.output_max = c[2],
        !.flags = 0] : c \in OutputClamp(conv_type, clip)}
  ELSE {}

\* status codes of the native library: one success value, the others failures
XnnStatus == {"success", "out_of_memory"}

\* the creation with every unlisted variant taken for the float one
CreateXnnpackKernelDefaultFloat(attrs, C, M, kernel_shape, clip, W, qp, conv_type, status) ==
  {[ret |-> IF status = "success" THEN "OK" ELSE "FAIL",
    error |-> IF status = "success" THEN "" ELSE "create returned status",
    native |-> <<[fn |-> "create", op |-> 0, status |-> status]>>,
    p |-> IF status = "success" THEN <<a>> ELSE <<>>] :
   a \in CreateArgs(attrs, C, M, kernel_shape, clip, W, qp,
                    IF conv_type \in {"qs8", "qc8", "qu8"} THEN conv_type ELSE "fp32")}

\* the creation returning OK whatever status the native call returned
CreateXnnpackKernelStatusIgnored(attrs, C, M, kernel_shape, clip, W, qp, conv_type, status) ==
  IF conv_type \notin {"fp32", "qs8", "qc8", "qu8"}
  THEN {[ret |-> "FAIL", error |-> "unsupported kernel type", native |-> <<>>,
         p |-> <<>>]}
  ELSE {[ret |-> "OK", error |-> "",
         native |-> <<[fn |-> "create", op |-> 0, status |-> status]>>,
         p |-> IF status = "success" THEN <<a>> ELSE <<>>] :
        a \in CreateArgs(attrs, C, M, kernel_shape, clip, W, qp, conv_type)}

\* CreateXnnpackKernel: the possible outcomes for a status the native creation
\* returns; p is the kernel created (its arguments), or none
CreateXnnpackKernel(attrs, C, M, kernel_shape, clip, W, qp, conv_type, status) ==
  IF conv_type \notin {"fp32", "qs8", "qc8", "qu8"}
  THEN {[ret |-> "FAIL", error |-> "unsupported kernel type", native |-> <<>>,
         p |-> <<>>]}
  ELSE {[ret |-> IF status = "success" THEN "OK" ELSE "FAIL",
         error |-> IF status = "success" THEN "" ELSE "create returned status",
         native |-> <<[fn |-> "create", op |-> 0, status |-> status]>>,
         p |-> IF status = "success" THEN <<a>> ELSE <<>>] :
        a \in CreateArgs(attrs, C, M, kernel_shape, clip, W, qp, conv_type)}

\* --------------------------------------------------------------- PrePack
\* the constant inputs the session offers for pre-packing
PrePackInputs == {1, 2, IN_W}

\* the weight position taken without looking at the variant
IsWeightInputAnySignature(conv_type, input_idx) ==
  input_idx = 1 \/ input_idx = IN_W

IsWeightInput(conv_type, input_idx) ==
  \/ conv_type = "fp32" /\ input_idx = 1
  \/ conv_type # "fp32" /\ input_idx = IN_W

\* new_dims left in the order of the source
PackedDimsUntransposed(orig_shape) == orig_shape

\* new_dims: {M, C/group, kH, kW} -> {M, kH, kW, C/group}
PackedDims(orig_shape) ==
  <<orig_shape[1], orig_shape[3], orig_shape[4], orig_shape[2]>>

\* TensorShape::Size
ShapeSize(dims) == dims[1] * dims[2] * dims[3] * dims[4]

\* the weight initializer in the ONNX layout: its elements, in row-major
\* order, each one named by its position
WeightData(orig_shape) == [i \in 1..ShapeSize(orig_shape) |-> i]

\* SingleAxisTranspose(perm, tensor, *packed_w_, from 1, to 3): for each of
\* the dims[0] outer blocks, element k of channel c goes to place k * C + c
SingleAxisTranspose(data, dims) ==
  LET num_loops == dims[1]
      num_writers == dims[2]
      writes_per_writer == dims[3] * dims[4]
      writes_per_loop == num_writers * writes_per_writer
  IN [o \in 1..(num_loops * writes_per_loop) |->
        LET l == (o - 1) \div writes_per_loop
            r == (o - 1) % writes_per_loop
            k == r \div num_writers
            c == r % num_writers
        IN data[l * writes_per_loop + c * writes_per_writer + k + 1]]

\* the handle stored whatever CreateXnnpackKernel returned
HandleAfterCreateUnchecked(ret, old, p) == p

\* ORT_RETURN_IF_ERROR(ret); op0_.reset(p): the handle the operator holds
\* after CreateXnnpackKernel returned ret, p being the kernel it created
HandleAfterCreate(ret, old, p) == IF ret = "OK" THEN p ELSE old

PrePack(input_idx, status) ==
  /\ life = "live"
  /\ calls < MaxCalls
  /\ calls' = calls + 1
  /\ IF IsWeightInput(conv_type_, input_idx)
     THEN LET w == [id |-> nbufs + 1, shape |-> PackedDims(info.W_shape),
                    dtype |-> info.x_dtype,
                    data |-> SingleAxisTranspose(WeightData(info.W_shape),
                                                 info.W_shape)] IN
          /\ packed_w_' = w
          /\ nbufs' = nbufs + 1
          /\ freed' = IF packed_w_.id # 0 THEN freed \cup {packed_w_.id} ELSE freed
          /\ \E r \in CreateXnnpackKernel(conv_attrs_, C_, M_, kernel_shape_,
                                          clip_min_max_, w, quant_param_,
                                          conv_type_, status) :
               /\ last' = [NoCall EXCEPT !.op = "PrePack", !.status = r.ret,
                                          !.error = r.error, !.is_packed = TRUE,
                                          !.input_idx = input_idx,
                                          !.native = r.native]
               /\ kernels' = kernels \o r.p
               /\ op0_' = HandleAfterCreate(r.ret, op0_,
                                            IF r.p # <<>> THEN Len(kernels) + 1 ELSE 0)
               /\ released' = IF op0_' # op0_ /\ op0_ # 0
                              THEN released \cup {op0_} ELSE released
     ELSE /\ status = "success"
          /\ last' = [NoCall EXCEPT !.op = "PrePack", !.input_idx = input_idx]
          /\ UNCHANGED <<packed_w_, nbufs, freed, kernels, op0_, released>>
  /\ UNCHANGED <<conc, info, life, conv_type_, clip_min_max_, quant_param_,
                 conv_attrs_, kernel_shape_, C_, M_, bound>>

\* --------------------------------------------------------------- Compute
\* ConvAttributes::InferPadsAndOutputShape along one spatial axis: the pads
\* (head, tail) and the output extent; a negative extent is an error
InferDim(auto_pad, in, kernel, stride, dilation, head, tail) ==
  LET dkernel == dilation * (kernel - 1) + 1 IN
  IF auto_pad = "SAME_UPPER"
  THEN LET out == (in + stride - 1) \div stride
           need == (out - 1) * stride + dkernel - in
           total == IF need > 0 THEN need ELSE 0
       IN [head |-> total \div 2, tail |-> total - total \div 2, out |-> out]
  ELSE [head |-> head, tail |-> tail,
        out |-> (in + head + tail - dkernel) \div stride + 1]

InferPadsAndOutputShape(attrs, input_shape, kernel_shape, pads) ==
  LET h == InferDim(attrs.auto_pad, input_shape[1], kernel_shape[1],
                    attrs.strides[1], attrs.dilations[1], pads[1], pads[3])
      w == InferDim(attrs.auto_pad, input_shape[2], kernel_shape[2],
                    attrs.strides[2], attrs.dilations[2], pads[2], pads[4])
  IN [ok |-> h.out >= 0 /\ w.out >= 0,
      pads |-> <<h.head, w.head, h.tail, w.tail>>,
      dims |-> <<h.out, w.out>>]

\* the output shape with the channels put second, as the CPU Conv does
OutputDimsChannelsSecond(N, dims, M) == <<N, M>> \o dims

\* TensorShapeVector Y_dims({N}); the inferred extents; Y_dims.push_back(M_)
OutputDims(N, dims, M) == <<N>> \o dims \o <<M>>

\* shape inference writing the pads it computes into the descriptor
AttrsAfterInferInPlace(attrs, inferred) == [attrs EXCEPT !.pads = inferred.pads]

\* ConvPadVector pads(conv_attrs_.pads): shape inference writes the pads it
\* computes to a copy, and the descriptor keeps its own
AttrsAfterInfer(attrs, inferred) == attrs

\* the early exit testing the batch size alone
IsEmptyBatch(Y_dims) == Y_dims[1] = 0

\* Y->Shape().Size() == 0: the output is empty
IsEmptyOutput(Y_dims) == ShapeSize(Y_dims) = 0

\* the variants that have a setup entry point
SetupFn(conv_type) ==
  IF conv_type \in {"fp32", "qs8", "qu8", "qc8"} THEN <<"setup_" \o conv_type>>
  ELSE <<>>

\* the dispatch running the kernel without looking at the setup status
DispatchSetupUnchecked(conv_type, op, setup_status, run_status) ==
  LET setup == [fn |-> SetupFn(conv_type)[1], op |-> op, status |-> setup_status]
      run == [fn |-> "run", op |-> op, status |-> run_status]
  IN
  IF SetupFn(conv_type) = <<>>
  THEN [status |-> "FAIL", error |-> "setup returned status", native |-> <<>>]
  ELSE IF run_status # "success"
  THEN [status |-> "FAIL", error |-> "run returned status",
        native |-> <<setup, run>>]
  ELSE [status |-> "OK", error |-> "", native |-> <<setup, run>>]

\* the setup binding the buffers only to a kernel that has none yet
BoundAfterSetupKeepFirst(old, mine, conv_type, op, setup_status) ==
  IF SetupFn(conv_type) # <<>> /\ setup_status = "success" /\ op # 0 /\ old = 0
  THEN mine ELSE old

\* xnn_setup_convolution2d_nhwc_*(op0_.get(), N, H, W, X.Data, Y->MutableData):
\* the call whose buffers the kernel holds after the setup of call mine
BoundAfterSetup(old, mine, conv_type, op, setup_status) ==
  IF SetupFn(conv_type) # <<>> /\ setup_status = "success" /\ op # 0
  THEN mine ELSE old

\* the native calls of one Compute and what it returns, for the statuses the
\* setup and the run return
Dispatch(conv_type, op, setup_status, run_status) ==
  LET setup == [fn |-> SetupFn(conv_type)[1], op |-> op, status |-> setup_status]
      run == [fn |-> "run", op |-> op, status |-> run_status]
  IN
  IF SetupFn(conv_type) = <<>>
  THEN [status |-> "FAIL", error |-> "setup returned status", native |-> <<>>]
  ELSE IF setup_status # "success"
  THEN [status |-> "FAIL", error |-> "setup returned status", native |-> <<setup>>]
  ELSE IF run_status # "success"
  THEN [status |-> "FAIL", error |-> "run returned status",
        native |-> <<setup, run>>]
  ELSE [status |-> "OK", error |-> "", native |-> <<setup, run>>]

Compute(N, H, W, setup_status, run_status) ==
  /\ life = "live"
  /\ calls < MaxCalls
  /\ calls' = calls + 1
  /\ LET inf == InferPadsAndOutputShape(conv_attrs_, <<H, W>>, kernel_shape_,
                                        conv_attrs_.pads)
         Y_dims == OutputDims(N, inf.dims, M_)
     IN
     /\ conv_attrs_' = AttrsAfterInfer(conv_attrs_, inf)
     /\ IF ~inf.ok
        THEN /\ setup_status = "success" /\ run_status = "success"
             /\ last' = [NoCall EXCEPT !.op = "Compute", !.status = "FAIL",
                                        !.error = "invalid input shape",
                                        !.X_shape = <<N, H, W, C_>>]
             /\ bound' = bound
        ELSE IF IsEmptyOutput(Y_dims)
        THEN /\ setup_status = "success" /\ run_status = "success"
             /\ last' = [NoCall EXCEPT !.op = "Compute", !.X_shape = <<N, H, W, C_>>,
                                        !.pads = inf.pads, !.Y_dims = Y_dims]
             /\ bound' = bound
        ELSE LET d == Dispatch(conv_type_, op0_, setup_status, run_status) IN
             /\ last' = [NoCall EXCEPT !.op = "Compute", !.status = d.status,
                                        !.error = d.error, !.native = d.native,
                                        !.X_shape = <<N, H, W, C_>>,
                                        !.pads = inf.pads, !.Y_dims = Y_dims]
             /\ bound' = BoundAfterSetup(bound, calls + 1, conv_type_, op0_,
                                          setup_status)
  /\ UNCHANGED <<conc, info, life, conv_type_, clip_min_max_, quant_param_,
                 kernel_shape_, C_, M_, packed_w_, op0_, kernels, released,
                 freed, nbufs>>

\* ------------------------------------------- Compute, one step at a time
\* the operator a thread calls, and the buffers its kernel holds
Inst(t) == IF conc.mode = "distinct" THEN t ELSE 1
KernelBound(i) == IF i = 1 THEN bound ELSE conc.bound2

\* the lock of the caller, taken around the whole call when it serializes
LockFree == conc.mode = "serialized" => conc.lock = 0
Unlocked == IF conc.mode = "serialized" THEN 0 ELSE conc.lock

\* Compute up to the request of the output: shape inference, Y, early exits
ComputeEnter(t, N, H, W) ==
  /\ life = "live"
  /\ calls < MaxCalls
  /\ conc.th[t].pc = "idle"
  /\ LockFree
  /\ calls' = calls + 1
  /\ LET inf == InferPadsAndOutputShape(conv_attrs_, <<H, W>>, kernel_shape_,
                                        conv_attrs_.pads)
         Y_dims == OutputDims(N, inf.dims, M_)
     IN
     /\ conv_attrs_' = AttrsAfterInfer(conv_attrs_, inf)
     /\ IF ~inf.ok
        THEN /\ last' = [NoCall EXCEPT !.op = "Compute", !.status = "FAIL",
                                        !.error = "invalid input shape",
                                        !.X_shape = <<N, H, W, C_>>]
             /\ conc' = conc
        ELSE IF IsEmptyOutput(Y_dims)
        THEN /\ last' = [NoCall EXCEPT !.op = "Compute", !.X_shape = <<N, H, W, C_>>,
                                        !.pads = inf.pads, !.Y_dims = Y_dims]
             /\ conc' = conc
        ELSE /\ last' = last
             /\ conc' = [conc EXCEPT
                           !.lock = IF conc.mode = "serialized" THEN t ELSE @,
                           !.th[t] = [pc |-> "entered", call |-> calls + 1,
                                      mine |-> @.mine \cup {calls + 1},
                                      X_shape |-> <<N, H, W, C_>>,
                                      pads |-> inf.pads, Y_dims |-> Y_dims,
                                      ran_on |-> 0]]
  /\ UNCHANGED <<info, life, conv_type_, clip_min_max_, quant_param_,
                 kernel_shape_, C_, M_, packed_w_, op0_, kernels, released,
                 freed, nbufs, bound>>

\* the setup call of the variant, and the return when it fails
ComputeSetup(t, setup_status) ==
  /\ conc.th[t].pc = "entered"
  /\ LET me == conc.th[t]
         d == Dispatch(conv_type_, op0_, setup_status, "success")
         nb == BoundAfterSetup(KernelBound(Inst(t)), me.call, conv_type_, op0_,
                               setup_status)
     IN
     /\ bound' = IF Inst(t) = 1 THEN nb ELSE bound
     /\ IF d.status = "FAIL"
        THEN /\ last' = [NoCall EXCEPT !.op = "Compute", !.status = d.status,
                                        !.error = d.error, !.native = d.native,
                                        !.X_shape = me.X_shape,
                                        !.pads = me.pads, !.Y_dims = me.Y_dims]
             /\ conc' = [conc EXCEPT !.lock = Unlocked,
                                     !.bound2 = IF Inst(t) = 2 THEN nb ELSE @,
                                     !.th[t].pc = "idle"]
        ELSE /\ last' = last
             /\ conc' = [conc EXCEPT !.bound2 = IF Inst(t) = 2 THEN nb ELSE @,
                                     !.th[t].pc = "bound"]
  /\ UNCHANGED <<info, life, conv_type_, clip_min_max_, quant_param_,
                 conv_attrs_, kernel_shape_, C_, M_, packed_w_, op0_, kernels,
                 released, freed, nbufs, calls>>

\* xnn_run_operator(op0_.get()) on the buffers the kernel holds, and the return
ComputeRun(t, run_status) ==
  /\ conc.th[t].pc = "bound"
  /\ LET me == conc.th[t]
         d == Dispatch(conv_type_, op0_, "success", run_status)
     IN
     /\ last' = [NoCall EXCEPT !.op = "Compute", !.status = d.status,
                                !.error = d.error, !.native = d.native,
                                !.X_shape = me.X_shape,
                                !.pads = me.pads, !.Y_dims = me.Y_dims]
     /\ conc' = [conc EXCEPT !.lock = Unlocked,
                             !.th[t].pc = "idle",
                             !.th[t].ran_on = IF op0_ # 0 THEN KernelBound(Inst(t))
                                              ELSE 0]
  /\ UNCHANGED <<info, life, conv_type_, clip_min_max_, quant_param_,
                 conv_attrs_, kernel_shape_, C_, M_, packed_w_, op0_, kernels,
                 released, freed, nbufs, bound, calls>>

\* ------------------------------------------------------------ destruction
\* ~Conv: the members go in the reverse of their declaration order, the
\* native handle op0_ first ...
DestroyHandle ==
  /\ life = "live"
  /\ life' = "releasing"
  /\ released' = IF op0_ # 0 THEN released \cup {op0_} ELSE released
  /\ op0_' = 0
  /\ last' = [NoCall EXCEPT !.op = "Destroy"]
  /\ UNCHANGED <<conc, info, conv_type_, clip_min_max_, quant_param_, conv_attrs_,
                 kernel_shape_, C_, M_, packed_w_, kernels, freed, nbufs,
                 bound, calls>>

\* ... and the packed weight packed_w_ after it
DestroyWeights ==
  /\ life = "releasing"
  /\ life' = "destroyed"
  /\ freed' = IF packed_w_.id # 0 THEN freed \cup {packed_w_.id} ELSE freed
  /\ packed_w_' = NoTensor
  /\ UNCHANGED <<conc, info, conv_type_, clip_min_max_, quant_param_, conv_attrs_,
                 kernel_shape_, C_, M_, op0_, kernels, released, nbufs,
                 bound, calls, last>>

\* ----------------------------------------------------------------- Next
Heights == {0, MaxH}

Next ==
  \/ Conv
  \/ \E i \in PrePackInputs, st \in XnnStatus : PrePack(i, st)
  \/ \E N \in 0..MaxN, H \in Heights, st \in XnnStatus, rt \in XnnStatus :
       Compute(N, H, MaxH, st, rt)

Spec == Init /\ [][Next]_vars

\* the life of a quantized operator, from construction to destruction
InitLife ==
  /\ info \in LifeNodes
  /\ life = "new"
  /\ conv_type_ = "invalid"
  /\ clip_min_max_ = <<>>
  /\ quant_param_ = NoQuantParam
  /\ conv_attrs_ = NoAttrs
  /\ kernel_shape_ = <<>>
  /\ C_ = 0 /\ M_ = 0
  /\ packed_w_ = NoTensor /\ op0_ = 0
  /\ kernels = <<>> /\ released = {} /\ freed = {}
  /\ nbufs = 0 /\ bound = 0 /\ calls = 0
  /\ last = NoCall
  /\ conc = NoConc

NextLife ==
  \/ Conv
  \/ \E st \in XnnStatus : PrePack(IN_W, st)
  \/ Compute(MaxN, MaxH, MaxH, "success", "success")
  \/ DestroyHandle
  \/ DestroyWeights

SpecLife == InitLife /\ [][NextLife]_vars

\* two threads of the session calling Compute, in each of the three Modes
ConcNodes == {n \in Nodes : /\ n.W_shape = <<2, 1, 1, 1>> /\ n.W_scale = <<2>>
                            /\ n.activation_params = <<>> /\ n.auto_pad = "NOTSET"
                            /\ n.pads = <<>> /\ n.strides = <<>>
                            /\ n.zp.Y = 0 /\ n.non_const = {}}

InitConc ==
  /\ info \in ConcNodes
  /\ life = "new"
  /\ conv_type_ = "invalid"
  /\ clip_min_max_ = <<>>
  /\ quant_param_ = NoQuantParam
  /\ conv_attrs_ = NoAttrs
  /\ kernel_shape_ = <<>>
  /\ C_ = 0 /\ M_ = 0
  /\ packed_w_ = NoTensor /\ op0_ = 0
  /\ kernels = <<>> /\ released = {} /\ freed = {}
  /\ nbufs = 0 /\ bound = 0 /\ calls = 0
  /\ last = NoCall
  /\ conc \in {[NoConc EXCEPT !.mode = m] : m \in Modes}

NextConc ==
  \/ Conv
  \/ \E i \in {1, IN_W} : PrePack(i, "success")
  \/ \E t \in Threads, H \in Heights : ComputeEnter(t, MaxN, H, MaxH)
  \/ \E t \in Threads, st \in XnnStatus : ComputeSetup(t, st)
  \/ \E t \in Threads, rt \in XnnStatus : ComputeRun(t, rt)

SpecConc == InitConc /\ [][NextConc]_vars

\* the operator fed every input extent, on the nodes of ShapeNodes
InitShape ==
  /\ info \in ShapeNodes
  /\ life = "new"
  /\ conv_type_ = "invalid"
  /\ clip_min_max_ = <<>>
  /\ quant_param_ = NoQuantParam
  /\ conv_attrs_ = NoAttrs
  /\ kernel_shape_ = <<>>
  /\ C_ = 0 /\ M_ = 0
  /\ packed_w_ = NoTensor /\ op0_ = 0
  /\ kernels = <<>> /\ released = {} /\ freed = {}
  /\ nbufs = 0 /\ bound = 0 /\ calls = 0
  /\ last = NoCall
  /\ conc = NoConc

NextShape ==
  \/ Conv
  \/ \E i \in {1, IN_W} : PrePack(i, "success")
  \/ \E N \in 1..(MaxN + 1), H \in 0..MaxDim, W \in 0..MaxDim :
       /\ W \in {H, MaxDim}
       /\ Compute(N, H, W, "success", "success")

SpecShape == InitShape /\ [][NextShape]_vars

\* =============================================================== claims
ValidTypes == {"fp32", "qs8", "qc8", "qu8"}

\* the setup and run calls of the last call
BindRunCalls == {i \in 1..Len(last.native) : last.native[i].fn # "create"}

\* the last call was a Compute that got past shape inference with an output
\* that has elements
NonEmptyCompute ==
  /\ last.op = "Compute"
  /\ last.Y_dims # <<>>
  /\ last.Y_dims[1] * last.Y_dims[2] * last.Y_dims[3] * last.Y_dims[4] # 0

\* C1: over any sequence of PrePack calls the native kernel is constructed at
\* most once, and a second weight PrePack replaces neither the stored handle
\* nor the packed weight (so no kernel is released and no weight freed).
C1_KernelConstructedAtMostOnce ==
  /\ Len(kernels) <= 1
  /\ released = {}
  /\ freed = {}

\* C2 (as claimed): no native setup or run call is ever issued with an absent
\* kernel handle, whatever the sequence of constructor, PrePack and Compute.
C2_NoBindOrRunOnAbsentHandle ==
  \A i \in BindRunCalls : last.native[i].op # 0

\* C2 (amended): once a weight PrePack has built a kernel, the operator always
\* holds a live handle, and every setup and run call is issued with it.
C2_HandlePresentOncePacked ==
  kernels # <<>> =>
    /\ op0_ \in 1..Len(kernels)
    /\ op0_ \notin released
    /\ \A i \in BindRunCalls : last.native[i].op = op0_

C2_Witness ==
  /\ kernels # <<>>
  /\ last.op = "Compute"
  /\ Len(last.native) = 2
  /\ last.native[2].op = op0_

\* C3: on the int8 per-channel path the native kernel is created with the
\* weight-scale array the classifier retained (one entry per output channel),
\* not with a reference to the single scalar scale.
C3_PerChannelScaleArray ==
  \A k \in 1..Len(kernels) :
    kernels[k].type = "qc8" =>
      /\ kernels[k].w_scale_ptr = "W_scale_arr"
      /\ kernels[k].w_scale = info.W_scale

\* C4: construction classifies the input dtype: float32 gives the float path
\* whatever the quantization inputs are (only a non-constant weight makes it
\* fail); int8 gives per-channel when W_scale has more than one element and
\* per-tensor when it has one; uint8 gives the unsigned path; any other dtype
\* gives the invalid variant.
C4_ClassifyByDType ==
  /\ life = "live" =>
       conv_type_ = CASE info.x_dtype = "FLOAT" -> "fp32"
                      [] info.x_dtype = "INT8" /\ Len(info.W_scale) > 1 -> "qc8"
                      [] info.x_dtype = "INT8" /\ Len(info.W_scale) = 1 -> "qs8"
                      [] info.x_dtype = "UINT8" -> "qu8"
                      [] OTHER -> "invalid"
  /\ (life = "ctor_failed" /\ info.x_dtype = "FLOAT") => 1 \in info.non_const

C4_Witness ==
  /\ life = "live"
  /\ conv_type_ = "qc8"
  /\ Len(info.W_scale) = 2

\* C5: on a quantized node with a zero point or scale input that is not
\* constant, construction throws before any native call: the operator never
\* becomes usable, and no variant, kernel or handle results.
C5_NonConstantQuantInputFails ==
  (/\ info.x_dtype # "FLOAT"
   /\ info.non_const \cap {IN_X_SCALE, IN_X_ZERO_POINT, IN_W_SCALE,
                            IN_W_ZERO_POINT, IN_Y_SCALE, IN_Y_ZERO_POINT} # {}) =>
    /\ life # "live"
    /\ life = "ctor_failed" => last.op = "Conv" /\ last.status = "THROW"
    /\ conv_type_ = "invalid"
    /\ kernels = <<>> /\ op0_ = 0 /\ packed_w_.id = 0
    /\ last.native = <<>>
    /\ calls = 0

C5_Witness ==
  /\ life = "ctor_failed"
  /\ info.x_dtype = "INT8"
  /\ info.non_const = {IN_Y_SCALE}

\* C6: a Compute whose inferred output shape has zero total elements returns
\* success with the empty output and issues neither setup nor run.
C6_EmptyOutputNoNativeCall ==
  (/\ last.op = "Compute"
   /\ last.Y_dims # <<>>
   /\ \E d \in 1..Len(last.Y_dims) : last.Y_dims[d] = 0) =>
    /\ last.status = "OK"
    /\ last.native = <<>>

C6_Witness ==
  /\ last.op = "Compute"
  /\ last.X_shape[1] > 0
  /\ last.X_shape[2] = 0
  /\ last.Y_dims # <<>>
  /\ last.Y_dims[2] = 0
  /\ op0_ # 0
  /\ last.status = "OK"

\* what C7 says of a Compute that issues the setup call
SetupThenRun ==
  /\ Len(last.native) \in {1, 2}
  /\ last.native[1].fn \notin {"run", "create"}
  /\ Len(last.native) = 2 =>
       /\ last.native[2].fn = "run"
       /\ last.native[1].status = "success"
  /\ (\E i \in 1..Len(last.native) : last.native[i].status # "success") =>
       last.status = "FAIL"

\* C7 (as claimed): within every Compute with a non-empty output the setup
\* call happens exactly once and first, the run at most once and only after
\* a successful setup, and a non-success status fails the call.
C7_SetupOnceThenRun == NonEmptyCompute => SetupThenRun

\* C7 (amended): the same for an operator of one of the four valid variants;
\* on the invalid variant Compute issues no native call and fails.
C7_SetupOnceThenRunValid ==
  NonEmptyCompute =>
    IF conv_type_ \in ValidTypes
    THEN SetupThenRun
    ELSE last.native = <<>> /\ last.status = "FAIL"

C7_Witness ==
  /\ NonEmptyCompute
  /\ Len(last.native) = 2
  /\ last.native[2].status # "success"
  /\ last.status = "FAIL"

\* C8: a Compute call, succeeding or failing, leaves the reusable state of the
\* operator unchanged (variant, descriptor with its pads, packed weight,
\* handle, and the native kernels), and its native calls use the stored
\* handle, binding the buffers of this call when the setup succeeds.
C8_ComputeKeepsState ==
  [][(calls' # calls /\ last'.op = "Compute") =>
       /\ opstate' = opstate
       /\ kernels' = kernels /\ released' = released /\ freed' = freed
       /\ \A i \in 1..Len(last'.native) : last'.native[i].op = op0_
       /\ (op0_ # 0 /\ Len(last'.native) = 2) => bound' = calls']_vars

C8_Witness ==
  /\ last.op = "Compute"
  /\ last.status = "FAIL"
  /\ Len(last.native) = 2
  /\ op0_ # 0
  /\ bound = calls
  /\ conv_attrs_.auto_pad = "SAME_UPPER"
  /\ kernel_shape_ = <<2, 2>>

\* the clamp of kernel k is the pair <<lo, hi>> (in halves)
ClampIs(k, lo, hi) == kernels[k].output_min = lo /\ kernels[k].output_max = hi

\* C9 (as claimed): float32 uses the fused clamp when supplied and the
\* unbounded range otherwise; the signed paths always use [-126, 126]; uint8
\* uses the fused clamp pair when supplied and [0, 255] otherwise.
C9_ClampByVariant ==
  \A k \in 1..Len(kernels) :
    CASE kernels[k].type = "fp32" ->
           IF clip_min_max_ # <<>>
           THEN ClampIs(k, clip_min_max_[1], clip_min_max_[2])
           ELSE ClampIs(k, NEG_INFINITY, POS_INFINITY)
      [] kernels[k].type \in {"qs8", "qc8"} -> ClampIs(k, -252, 252)
      [] OTHER ->
           IF clip_min_max_ # <<>>
           THEN ClampIs(k, clip_min_max_[1], clip_min_max_[2])
           ELSE ClampIs(k, 0, 510)

\* C9 (amended): as claimed, except that uint8 uses the fused pair narrowed
\* to unsigned 8 bits: each bound in [0, 256) loses its fraction.
C9_ClampByVariantNarrowed ==
  \A k \in 1..Len(kernels) :
    CASE kernels[k].type = "fp32" ->
           IF clip_min_max_ # <<>>
           THEN ClampIs(k, clip_min_max_[1], clip_min_max_[2])
           ELSE ClampIs(k, NEG_INFINITY, POS_INFINITY)
      [] kernels[k].type \in {"qs8", "qc8"} -> ClampIs(k, -252, 252)
      [] OTHER ->
           IF clip_min_max_ # <<>>
           THEN /\ clip_min_max_[1] \in 0..511 =>
                     kernels[k].output_min = clip_min_max_[1] - (clip_min_max_[1] % 2)
                /\ clip_min_max_[2] \in 0..511 =>
                     kernels[k].output_max = clip_min_max_[2] - (clip_min_max_[2] % 2)
           ELSE ClampIs(k, 0, 510)

C9_Witness ==
  /\ kernels # <<>>
  /\ kernels[1].type = "qu8"
  /\ clip_min_max_ = <<1, 12>>
  /\ kernels[1].output_min = 0
  /\ kernels[1].output_max = 12

\* C10: for every variant the kernel is created with the same-padding flag
\* when the descriptor asks for "same" auto-padding, and with flags zero
\* when it does not.
C10_SamePaddingFlag ==
  \A k \in 1..Len(kernels) :
    kernels[k].flags = IF conv_attrs_.auto_pad = "SAME_UPPER"
                       THEN XNN_FLAG_TENSORFLOW_SAME_PADDING ELSE 0

\* C11: on the invalid variant the weight PrePack fails with the unsupported
\* kernel type error without calling a native creation entry point, and the
\* operator never holds a kernel handle.
C11_InvalidVariantFailsPrePack ==
  conv_type_ = "invalid" =>
    /\ kernels = <<>> /\ op0_ = 0
    /\ (last.op = "PrePack" /\ last.is_packed) =>
         /\ last.status = "FAIL"
         /\ last.error = "unsupported kernel type"
         /\ last.native = <<>>

C11_Witness ==
  /\ life = "live"
  /\ info.x_dtype = "INT32"
  /\ conv_type_ = "invalid"
  /\ last.op = "PrePack"
  /\ last.is_packed
  /\ last.status = "FAIL"

\* C12: when the native creation returns a status other than success, the
\* weight PrePack returns a failure, calls the creation once only, and leaves
\* the stored handle (and the kernels) as they were before the call.
C12_CreateFailureKeepsHandle ==
  [][(/\ calls' # calls
      /\ last'.op = "PrePack"
      /\ \E i \in 1..Len(last'.native) : last'.native[i].status # "success") =>
       /\ last'.status = "FAIL"
       /\ Len(last'.native) = 1
       /\ op0_' = op0_
       /\ kernels' = kernels
       /\ released' = released]_vars

C12_Witness ==
  /\ last.op = "PrePack"
  /\ last.native # <<>>
  /\ last.native[1].status # "success"
  /\ last.status = "FAIL"
  /\ op0_ # 0
  /\ packed_w_.id > kernels[op0_].weights

\* C15: the output shape of every Compute is the one the descriptor built at
\* construction gives for the input shape, whatever calls came before: the
\* stored pads are never modified (auto-padding writes the pads it computes
\* to a copy), and two Compute calls in a row on the same input shape give
\* the same output shape.
C15_ShapeInferenceIdempotent ==
  /\ [](life = "live" => conv_attrs_ = CtorAttrs(info))
  /\ [][(/\ last.op = "Compute" /\ last'.op = "Compute"
          /\ calls' # calls
          /\ last'.X_shape = last.X_shape) =>
           /\ last'.Y_dims = last.Y_dims
           /\ last'.pads = last.pads]_vars

C15_Witness ==
  /\ last.op = "Compute"
  /\ calls >= 2
  /\ conv_attrs_.auto_pad = "SAME_UPPER"
  /\ last.pads # conv_attrs_.pads
  /\ last.Y_dims # <<>>

\* C18 (as claimed): after construction of a quantized operator exactly one
\* of the per-tensor weight scale and the per-channel scale array is
\* populated: the array alone on the per-channel variant, the scalar alone
\* otherwise.
C18_ExactlyOneWeightScale ==
  (life = "live" /\ conv_type_ # "fp32") =>
    IF conv_type_ = "qc8"
    THEN quant_param_.W_scale_arr # <<>> /\ quant_param_.W_scale_value = 0
    ELSE quant_param_.W_scale_arr = <<>> /\ quant_param_.W_scale_value # 0

\* C18 (amended): the per-tensor weight scale is always populated, with the
\* first element of the W_scale tensor; the per-channel array is populated,
\* with the whole tensor, exactly when the per-channel variant was selected.
C18_ScalarAlwaysArrayPerChannel ==
  (life = "live" /\ conv_type_ # "fp32") =>
    /\ quant_param_.W_scale_value = info.W_scale[1]
    /\ quant_param_.W_scale_value # 0
    /\ IF conv_type_ = "qc8"
       THEN quant_param_.W_scale_arr = info.W_scale
       ELSE quant_param_.W_scale_arr = <<>>

C18_Witness ==
  /\ life = "live"
  /\ conv_type_ = "qc8"
  /\ quant_param_.W_scale_arr = <<3, 4>>
  /\ quant_param_.W_scale_value = 3

\* C19: a PrePack call for a position other than that of the weight (1 on
\* the float path, IN_W on the others) reports is_packed = false, returns
\* success and changes nothing: no packed weight, no native creation, the
\* handle untouched.
C19_OtherInputsUntouched ==
  [][(/\ calls' # calls
      /\ last'.op = "PrePack"
      /\ last'.input_idx # (IF info.x_dtype = "FLOAT" THEN 1 ELSE IN_W)) =>
       /\ ~last'.is_packed
       /\ last'.status = "OK"
       /\ last'.native = <<>>
       /\ opstate' = opstate
       /\ kernels' = kernels /\ released' = released /\ freed' = freed
       /\ nbufs' = nbufs]_vars

C19_Witness ==
  /\ last.op = "PrePack"
  /\ last.input_idx = 1
  /\ conv_type_ = "qs8"
  /\ ~last.is_packed
  /\ op0_ # 0

\* C17: in every reachable state, over any sequence of PrePack, Compute and
\* destruction, no packed weight buffer has been freed while a kernel handle
\* created from it is still live.
C17_WeightsOutliveHandle ==
  \A k \in 1..Len(kernels) :
    kernels[k].weights \in freed => k \in released

AttrOr(attr, default) == IF attr = <<>> THEN default ELSE attr

\* the standard padded-convolution extent
ConvExtent(in, kernel, stride, dilation, head, tail) ==
  (in + head + tail - (dilation * (kernel - 1) + 1)) \div stride + 1

\* C13: every Compute on an input [N, H, W, C] that passes shape inference
\* requests the output [N, outH, outW, M]: N first, then the two extents the
\* padded-convolution formula gives for the kernel shape, strides, dilations
\* and (effective) padding of the descriptor, then M, the first dimension of
\* the weight, last.
C13_OutputShapeChannelLast ==
  (last.op = "Compute" /\ last.Y_dims # <<>>) =>
    LET strides == AttrOr(info.strides, <<1, 1>>)
        dilations == AttrOr(info.dilations, <<1, 1>>)
    IN /\ Len(last.Y_dims) = 4
       /\ last.Y_dims[1] = last.X_shape[1]
       /\ last.Y_dims[2] = ConvExtent(last.X_shape[2], info.W_shape[3], strides[1],
                                      dilations[1], last.pads[1], last.pads[3])
       /\ last.Y_dims[3] = ConvExtent(last.X_shape[3], info.W_shape[4], strides[2],
                                      dilations[2], last.pads[2], last.pads[4])
       /\ last.Y_dims[4] = info.W_shape[1]
       /\ info.auto_pad = "NOTSET" => last.pads = AttrOr(info.pads, <<0, 0, 0, 0>>)
       /\ (last.X_shape = <<1, 5, 5, 4>> /\ info.W_shape = <<8, 4, 3, 3>>) =>
            last.Y_dims = <<1, 3, 3, 8>>

C13_Witness ==
  /\ last.op = "Compute"
  /\ last.status = "OK"
  /\ info.W_shape = <<8, 4, 3, 3>>
  /\ last.X_shape = <<1, 5, 5, 4>>
  /\ last.Y_dims = <<1, 3, 3, 8>>

\* the element of a row-major tensor at a 0-based index
At(data, shape, i) ==
  data[((i[1] * shape[2] + i[2]) * shape[3] + i[3]) * shape[4] + i[4] + 1]

\* the 0-based index of place o of a row-major tensor
Unflatten(o, shape) ==
  <<o \div (shape[2] * shape[3] * shape[4]), (o \div (shape[3] * shape[4])) % shape[2],
    (o \div shape[4]) % shape[3], o % shape[4]>>

\* the generic permutation: axis a of the result is axis perm[a] of the source
Permute(data, shape, perm) ==
  LET new_shape == [a \in 1..4 |-> shape[perm[a]]] IN
  [o \in 1..Len(data) |->
     LET j == Unflatten(o - 1, new_shape)
         i == [a \in 1..4 |-> j[CHOOSE k \in 1..4 : perm[k] = a]]
     IN At(data, shape, i)]

\* C14: the weight PrePack of a weight {M, Cg, kH, kW} produces a tensor of
\* shape {M, kH, kW, Cg} and of the same element type, whose element at
\* [m, h, w, c] is the source element at [m, c, h, w]; the inverse
\* permutation applied to it gives the source tensor back.
C14_WeightTransposed ==
  packed_w_.id # 0 =>
    LET src == info.W_shape
        M == src[1]  Cg == src[2]  kH == src[3]  kW == src[4]
    IN /\ packed_w_.shape = <<M, kH, kW, Cg>>
       /\ packed_w_.dtype = info.x_dtype
       /\ Len(packed_w_.data) = M * Cg * kH * kW
       /\ \A m \in 0..(M - 1), c \in 0..(Cg - 1), h \in 0..(kH - 1), w \in 0..(kW - 1) :
            At(packed_w_.data, packed_w_.shape, <<m, h, w, c>>)
              = At(WeightData(src), src, <<m, c, h, w>>)
       /\ Permute(packed_w_.data, packed_w_.shape, <<1, 4, 2, 3>>) = WeightData(src)

C14_Witness ==
  /\ last.op = "PrePack" /\ last.is_packed
  /\ info.W_shape = <<2, 3, 1, 2>>
  /\ packed_w_.shape = <<2, 1, 2, 3>>
  /\ packed_w_.data # WeightData(info.W_shape)
  /\ packed_w_.dtype = "INT8"

\* C16: a native run executes on the buffers bound by the setup of its own
\* call, or - only when two calls run on the same operator with nothing
\* serializing them - on the buffers bound by a call of the other thread;
\* when the calls are serialized or made on distinct operators, always on
\* its own.
C16_RunOnOwnBuffersUnlessRaced ==
  \A t \in Threads :
    LET me == conc.th[t] IN
    me.ran_on # 0 =>
      \/ me.ran_on = me.call
      \/ /\ conc.mode = "shared"
         /\ \E u \in Threads \ {t} : me.ran_on \in conc.th[u].mine

\* two unserialized calls on one operator, one having run on the buffers the
\* other one bound
C16_Witness ==
  /\ conc.mode = "shared"
  /\ \E t \in Threads, u \in Threads :
       /\ t # u
       /\ conc.th[t].ran_on # 0
       /\ conc.th[t].ran_on # conc.th[t].call
       /\ conc.th[t].ran_on = conc.th[u].call
       /\ last.op = "Compute" /\ last.status = "OK"

====
